---- MODULE Spec2Model ----
(***************************************************************************)
(* Model of seq2seq/Models.py: the masking utilities, Encoder, Session,    *)
(* Decoder and the Seq2Seq orchestrator.                                   *)
(*                                                                         *)
(* Tensors are nested sequences indexed from 1: a token batch is a         *)
(* sequence (batch) of sequences (time) of token ids, an activation batch  *)
(* a sequence of sequences of vectors.  A vector of d_model floats is a    *)
(* symbolic term (a record with an "op" field): Zero is the zero vector,   *)
(* every learned primitive (embedding row, attention layer, LSTM cell) is  *)
(* an uninterpreted constructor of its inputs.  Multiplication by a 0/1    *)
(* mask and addition of Zero are interpreted exactly.                      *)
(***************************************************************************)
EXTENDS Integers, Sequences, FiniteSets, TLC

\* Constants.PAD
PAD == 0

\* bounds of the explored inputs
MaxBatch == 2
MaxSrcLen == 2
MaxTgtLen == 4
MaxDecLen == 3
MaxCalls == 2
MaxVal == 2

VARIABLES
    built,      \* "none" | "ok" | "error": outcome of Seq2Seq.__init__
    ctor,       \* the arguments Seq2Seq.__init__ was called with
    model,      \* the attributes of the Seq2Seq object
    store,      \* tensor id -> contents of the parameter tensor
    hc_set,     \* Session has the attributes h and c
    h, c,       \* Session.h, Session.c: one vector per batch element
    pc,         \* position inside Seq2Seq.forward / Decoder.forward
    frame,      \* locals of the running (or last completed) call
    calls,      \* successful Seq2Seq.forward calls since the last reset
    feats       \* feature batches fed to the LSTM cell since the last reset

vars == <<built, ctor, model, store, hc_set, h, c, pc, frame, calls, feats>>

-----------------------------------------------------------------------------
(* Vectors *)

Zero == [op |-> "zero"]

\* x * m for a mask value m in {0, 1}
Scale(x, m) == IF m = 0 THEN Zero ELSE x

\* a + b
Add(a, b) ==
    IF a = Zero THEN b
    ELSE IF b = Zero THEN a
    ELSE [op |-> "add", a |-> a, b |-> b]

Rows(t) == 1..Len(t)

\* torch.cat((a, b), dim=0) and t.repeat(2, 1)
CatBatch(a, b) == a \o b
Repeat2(t) == t \o t

-----------------------------------------------------------------------------
(* Masking utilities *)

\* seq.ne(PAD).type(torch.float).unsqueeze(-1)
get_non_pad_mask(seq) ==
    [b \in Rows(seq) |-> [j \in 1..Len(seq[b]) |-> IF seq[b][j] # PAD THEN 1 ELSE 0]]

\* variant: the padding of the query sequence masks the query's row
KeyPadMaskFromQuery(seq_k, seq_q) ==
    [b \in Rows(seq_k) |-> [i \in 1..Len(seq_q[1]) |->
        [j \in 1..Len(seq_k[b]) |-> seq_q[b][i] = PAD]]]

\* seq_k.eq(PAD).unsqueeze(1).expand(-1, len_q, -1)
get_attn_key_pad_mask(seq_k, seq_q) ==
    LET len_q == Len(seq_q[1])
        padding_mask == [b \in Rows(seq_k) |->
                            [j \in 1..Len(seq_k[b]) |-> seq_k[b][j] = PAD]]
    IN  [b \in Rows(seq_k) |-> [i \in 1..len_q |-> padding_mask[b]]]

\* torch.triu(torch.ones((n, n), dtype=uint8), diagonal)
Triu(n, diagonal) ==
    [i \in 1..n |-> [j \in 1..n |-> IF j - i >= diagonal THEN 1 ELSE 0]]

\* variant: the diagonal is masked too
SubsequentMaskWithDiagonal(seq) ==
    [b \in 1..Len(seq) |-> Triu(Len(seq[1]), 0)]

get_subsequent_mask(seq) ==
    LET sz_b == Len(seq)
        len_s == Len(seq[1])
        subsequent_mask == Triu(len_s, 1)
    IN  [b \in 1..sz_b |-> subsequent_mask]

\* (slf_attn_mask_keypad + slf_attn_mask_subseq).gt(0), in uint8 arithmetic
SlfAttnMask(keypad, subseq) ==
    [b \in Rows(keypad) |-> [i \in 1..Len(keypad[b]) |-> [j \in 1..Len(keypad[b][i]) |->
        (((IF keypad[b][i][j] THEN 1 ELSE 0) + subseq[b][i][j]) % 256) > 0]]]

\* the entries of xs at the key positions the mask row leaves visible
Visible(xs, maskrow) ==
    LET F[n \in 0..Len(xs)] ==
            IF n = 0 THEN <<>>
            ELSE IF maskrow[n] THEN F[n - 1] ELSE Append(F[n - 1], xs[n])
    IN  F[Len(xs)]

-----------------------------------------------------------------------------
(* Embeddings *)

\* nn.Embedding lookup in a weight tensor w = [val, pad_zero]: the PAD row is
\* the zero vector only when the table was created with padding_idx=PAD
Embedding(w, tok) ==
    IF tok = PAD /\ w.pad_zero THEN Zero
    ELSE [op |-> "emb", w |-> w.val, tok |-> tok]

\* row p of get_sinusoid_encoding_table(n_position, d_hid, padding_idx=0)
position_enc(p) ==
    IF p = 0 THEN Zero ELSE [op |-> "pos", p |-> p]

EmbedSeq(w, seq, pos) ==
    [b \in Rows(seq) |-> [j \in 1..Len(seq[b]) |->
        Add(Embedding(w, seq[b][j]), position_enc(pos[b][j]))]]

-----------------------------------------------------------------------------
(* Encoder *)

\* one EncoderLayer: self-attention under the key-padding mask, the output
\* scaled by the non-pad mask
EncoderLayer(x, non_pad_mask, slf_attn_mask) ==
    [b \in Rows(x) |-> [j \in 1..Len(x[b]) |->
        Scale([op |-> "enc_layer", q |-> x[b][j],
               ctx |-> Visible(x[b], slf_attn_mask[b][j])],
              non_pad_mask[b][j])]]

EncoderForward(w, n_layers, src_seq, src_pos) ==
    LET slf_attn_mask == get_attn_key_pad_mask(src_seq, src_seq)
        non_pad_mask == get_non_pad_mask(src_seq)
        Stack[n \in 0..n_layers] ==
            IF n = 0 THEN EmbedSeq(w, src_seq, src_pos)
            ELSE EncoderLayer(Stack[n - 1], non_pad_mask, slf_attn_mask)
    IN  Stack[n_layers]

-----------------------------------------------------------------------------
(* Session *)

\* torch.zeros(batch_size, d_hidden)
Zeros(batch_size) == [b \in 1..batch_size |-> Zero]

\* enc_output *= non_pad_mask: the value the tensor holds afterwards
MaskInPlace(enc_output, src_seq) ==
    LET non_pad_mask == get_non_pad_mask(src_seq)
    IN  [b \in Rows(enc_output) |-> [j \in 1..Len(enc_output[b]) |->
            Scale(enc_output[b][j], non_pad_mask[b][j])]]

\* torch.max(features, dim=1): element-wise maximum over the time axis
TimeMax(xs) ==
    IF \A j \in 1..Len(xs) : xs[j] = Zero THEN Zero
    ELSE [op |-> "max", xs |-> xs]

SessionFeatures(enc_output) ==
    [b \in Rows(enc_output) |-> TimeMax(enc_output[b])]

\* nn.LSTMCell: the input and the state must have the same batch size
LSTMCellAccepts(features, hh, cc) ==
    Len(hh) = Len(features) /\ Len(cc) = Len(features)

\* variant: self.memory(features), which starts every step from the zero state
LSTMCellFromZero(features, hh, cc) ==
    [h |-> [b \in Rows(features) |->
                [op |-> "lstm_h", x |-> features[b], h |-> Zero, c |-> Zero]],
     c |-> [b \in Rows(features) |->
                [op |-> "lstm_c", x |-> features[b], h |-> Zero, c |-> Zero]]]

\* self.h, self.c = self.memory(features, (self.h, self.c))
LSTMCell(features, hh, cc) ==
    [h |-> [b \in Rows(features) |->
                [op |-> "lstm_h", x |-> features[b], h |-> hh[b], c |-> cc[b]]],
     c |-> [b \in Rows(features) |->
                [op |-> "lstm_c", x |-> features[b], h |-> hh[b], c |-> cc[b]]]]

\* AttentionLayer: the hidden vector as the query over the encoder sequence
AttentionLayer(enc_output, hh, non_pad_mask) ==
    [b \in Rows(enc_output) |-> [j \in 1..Len(enc_output[b]) |->
        [op |-> "attn", q |-> hh[b], x |-> enc_output[b][j],
         m |-> non_pad_mask[b][j]]]]

\* self.layer_norm(ses_output + enc_output)
SessionOutput(enc_output, src_seq, hh) ==
    LET ses == AttentionLayer(enc_output, hh, get_non_pad_mask(src_seq))
    IN  [b \in Rows(enc_output) |-> [j \in 1..Len(enc_output[b]) |->
            [op |-> "layer_norm", x |-> Add(ses[b][j], enc_output[b][j])]]]

\* variant: the state is cleared before the LSTM cell is tried
SessionForwardClearing(enc_output, src_seq, set, hh, cc) ==
    LET masked == MaskInPlace(enc_output, src_seq)
        features == SessionFeatures(masked)
        zh == Zeros(Len(features))
    IN  IF ~set \/ ~LSTMCellAccepts(features, hh, cc)
        THEN [ok |-> FALSE, h |-> zh, c |-> zh, features |-> features,
              enc_output |-> masked, ses_output |-> <<>>]
        ELSE LET new == LSTMCell(features, hh, cc)
             IN  [ok |-> TRUE, h |-> new.h, c |-> new.c, features |-> features,
                  enc_output |-> masked,
                  ses_output |-> SessionOutput(masked, src_seq, new.h)]

\* Session.forward on the tensor enc_output, with the state (hh, cc); set says
\* whether the attributes h and c exist.  The result gives the state and the
\* contents of the argument tensor after the call, and the returned sequence.
SessionForward(enc_output, src_seq, set, hh, cc) ==
    LET masked == MaskInPlace(enc_output, src_seq)
        features == SessionFeatures(masked)
    IN  IF ~set \/ ~LSTMCellAccepts(features, hh, cc)
        THEN [ok |-> FALSE, h |-> hh, c |-> cc, features |-> features,
              enc_output |-> masked, ses_output |-> <<>>]
        ELSE LET new == LSTMCell(features, hh, cc)
             IN  [ok |-> TRUE, h |-> new.h, c |-> new.c, features |-> features,
                  enc_output |-> masked,
                  ses_output |-> SessionOutput(masked, src_seq, new.h)]

-----------------------------------------------------------------------------
(* Decoder *)

\* one DecoderLayer: masked self-attention, the output scaled by the non-pad
\* mask, then attention over the encoder sequence under the source mask
DecoderLayer(x, enc_output, non_pad_mask, slf_attn_mask, dec_enc_attn_mask) ==
    [b \in Rows(x) |-> [i \in 1..Len(x[b]) |->
        Scale([op |-> "dec_layer", q |-> x[b][i],
               ctx |-> Visible(x[b], slf_attn_mask[b][i]),
               mem |-> Visible(enc_output[b], dec_enc_attn_mask[b][i])],
              non_pad_mask[b][i])]]

DecoderForward(w, n_layers, tgt_seq, tgt_pos, src_seq, enc_output) ==
    LET non_pad_mask == get_non_pad_mask(tgt_seq)
        slf_attn_mask_subseq == get_subsequent_mask(tgt_seq)
        slf_attn_mask_keypad == get_attn_key_pad_mask(tgt_seq, tgt_seq)
        slf_attn_mask == SlfAttnMask(slf_attn_mask_keypad, slf_attn_mask_subseq)
        dec_enc_attn_mask == get_attn_key_pad_mask(src_seq, tgt_seq)
        Stack[n \in 0..n_layers] ==
            IF n = 0 THEN EmbedSeq(w, tgt_seq, tgt_pos)
            ELSE DecoderLayer(Stack[n - 1], enc_output, non_pad_mask,
                              slf_attn_mask, dec_enc_attn_mask)
    IN  [tgt_seq |-> tgt_seq, tgt_pos |-> tgt_pos, src_seq |-> src_seq,
         enc_output |-> enc_output,
         slf_attn_mask_subseq |-> slf_attn_mask_subseq,
         slf_attn_mask_keypad |-> slf_attn_mask_keypad,
         slf_attn_mask |-> slf_attn_mask,
         dec_enc_attn_mask |-> dec_enc_attn_mask,
         dec_output |-> Stack[n_layers]]

-----------------------------------------------------------------------------
(* Seq2Seq construction *)

\* the parameter tensors created by the sub-modules
SrcEmbTensor == 1
TgtEmbTensor == 2
PrjTensor == 3

\* Encoder.__init__ / Decoder.__init__: the embedding table is read from
\* emb_file when one is given, else created with padding_idx=PAD
NewEmbedding(emb_file) == [val |-> 0, pad_zero |-> (emb_file = "")]

\* nn.Linear(d_model, n_tgt_vocab, bias=False), xavier-initialised
NewLinear == [val |-> 0, pad_zero |-> FALSE]

\* variant: the vocabulary sizes are compared whatever the sharing option
CtorFailsAnyVocab(a) ==
    \/ a.d_model # a.d_word_vec
    \/ a.n_src_vocab # a.n_tgt_vocab

\* the assertions of Seq2Seq.__init__
CtorFails(a) ==
    \/ a.d_model # a.d_word_vec
    \/ a.emb_src_tgt_weight_sharing /\ a.n_src_vocab # a.n_tgt_vocab

\* variant: the projection keeps a tensor of its own (a copy of the values)
PrjWeightOwn(a) == PrjTensor

\* the tensor self.tgt_word_prj.weight names after construction
PrjWeight(a) ==
    IF a.tgt_emb_prj_weight_sharing THEN TgtEmbTensor ELSE PrjTensor

\* the tensor self.encoder.src_word_emb.weight names after construction
SrcEmbWeight(a) ==
    IF a.emb_src_tgt_weight_sharing THEN TgtEmbTensor ELSE SrcEmbTensor

\* self.x_logit_scale: the real number num / sqrt(den_sq)
XLogitScale(a) ==
    IF a.tgt_emb_prj_weight_sharing
    THEN [num |-> 1, den_sq |-> a.d_model]
    ELSE [num |-> 1, den_sq |-> 1]

NoModel ==
    [src_word_emb |-> 0, tgt_word_emb |-> 0, tgt_word_prj |-> 0,
     x_logit_scale |-> [num |-> 0, den_sq |-> 1], mmi_factor |-> 0, n_layers |-> 0]

NoStore == [t \in {SrcEmbTensor, TgtEmbTensor, PrjTensor} |-> NewLinear]

NewModel(a) ==
    [src_word_emb |-> SrcEmbWeight(a), tgt_word_emb |-> TgtEmbTensor,
     tgt_word_prj |-> PrjWeight(a), x_logit_scale |-> XLogitScale(a),
     mmi_factor |-> a.mmi_factor, n_layers |-> a.n_layers]

NewStore(a) ==
    [t \in {SrcEmbTensor, TgtEmbTensor, PrjTensor} |->
        IF t = SrcEmbTensor THEN NewEmbedding(a.src_emb_file)
        ELSE IF t = TgtEmbTensor THEN NewEmbedding(a.tgt_emb_file)
        ELSE NewLinear]

NoArgs ==
    [n_src_vocab |-> 0, n_tgt_vocab |-> 0, d_word_vec |-> 0, d_model |-> 0,
     n_layers |-> 0, tgt_emb_prj_weight_sharing |-> FALSE,
     emb_src_tgt_weight_sharing |-> FALSE, mmi_factor |-> 0,
     src_emb_file |-> "", tgt_emb_file |-> ""]

\* the argument tuples explored for the constructor
CtorArgs ==
    [n_src_vocab : {3, 4}, n_tgt_vocab : {3, 4},
     d_word_vec : {2, 3}, d_model : {2, 3}, n_layers : {0, 1},
     tgt_emb_prj_weight_sharing : BOOLEAN, emb_src_tgt_weight_sharing : BOOLEAN,
     mmi_factor : {0, 1}, src_emb_file : {"", "glove.npy"},
     tgt_emb_file : {"", "glove.npy"}]

\* the models the forward pass is explored on: the default weight sharing,
\* one vocabulary, with and without pretrained embeddings
ForwardArgs ==
    {a \in CtorArgs :
        /\ a.n_src_vocab = 3 /\ a.n_tgt_vocab = 3
        /\ a.d_word_vec = 2 /\ a.d_model = 2
        /\ a.tgt_emb_prj_weight_sharing /\ a.emb_src_tgt_weight_sharing
        /\ a.src_emb_file = a.tgt_emb_file}

-----------------------------------------------------------------------------
(* Seq2Seq.forward *)

\* variant: t[:, 1:]
DropFirst(t) == [b \in Rows(t) |-> SubSeq(t[b], 2, Len(t[b]))]

\* t[:, :-1]
DropLast(t) == [b \in Rows(t) |-> SubSeq(t[b], 1, Len(t[b]) - 1)]

\* self.tgt_word_prj(dec_output) * self.x_logit_scale
Project(w, scale, dec_output) ==
    [b \in Rows(dec_output) |-> [i \in 1..Len(dec_output[b]) |->
        [op |-> "logit", w |-> w.val, x |-> dec_output[b][i], scale |-> scale]]]

\* seq_logit.view(-1, seq_logit.size(2)): the rows of the batch elements, one
\* batch element after the other
View2D(t) ==
    LET F[n \in 0..Len(t)] == IF n = 0 THEN <<>> ELSE F[n - 1] \o t[n]
    IN  F[Len(t)]

\* variant: mmi_factor >= 0 selects the doubled pass
DecoderCallDoubled(w, n_layers, mmi_factor, tgt_seq, tgt_pos, src_seq, ses_output, enc_output) ==
    IF mmi_factor >= 0
    THEN DecoderForward(w, n_layers, Repeat2(tgt_seq), Repeat2(tgt_pos),
                        Repeat2(src_seq), CatBatch(ses_output, enc_output))
    ELSE DecoderForward(w, n_layers, tgt_seq, tgt_pos, src_seq, ses_output)

\* the decoder call of Seq2Seq.forward: doubled when mmi_factor > 0
DecoderCall(w, n_layers, mmi_factor, tgt_seq, tgt_pos, src_seq, ses_output, enc_output) ==
    IF mmi_factor > 0
    THEN DecoderForward(w, n_layers, Repeat2(tgt_seq), Repeat2(tgt_pos),
                        Repeat2(src_seq), CatBatch(ses_output, enc_output))
    ELSE DecoderForward(w, n_layers, tgt_seq, tgt_pos, src_seq, ses_output)

-----------------------------------------------------------------------------
(* Input batches *)

Max2(x, y) == IF x > y THEN x ELSE y

\* a right-padded row: k tokens, then PAD up to length len
SeqRow(b, len, k) ==
    [j \in 1..len |-> IF j <= k THEN 1 + ((b + j) % 2) ELSE PAD]

\* the position ids of a batch: 1, 2, ... on tokens, 0 on padding
PosOf(seq) ==
    [b \in Rows(seq) |-> [j \in 1..Len(seq[b]) |-> IF seq[b][j] # PAD THEN j ELSE 0]]

\* source batches: row b holds k - (b - 1) tokens; a row may be all padding
SrcBatch(sz_b, k) == [b \in 1..sz_b |-> SeqRow(b, MaxSrcLen, Max2(0, k - (b - 1)))]

\* target batches: every row holds at least one token
TgtBatch(sz_b, len, k) == [b \in 1..sz_b |-> SeqRow(b, len, Max2(1, k - (b - 1)))]

\* batches of arbitrary PAD / non-PAD rows, for the direct decoder calls: the
\* odd rows hold one pattern, the even rows another
AnyBatch(sz_b, len) ==
    {[b \in 1..sz_b |-> IF b % 2 = 1 THEN r1 ELSE r2] :
        r1 \in [1..len -> {PAD, 1}], r2 \in [1..len -> {PAD, 1}]}

\* an arbitrary encoder-side memory for the direct decoder calls
AnyMemory(sz_b) ==
    [b \in 1..sz_b |-> [j \in 1..MaxSrcLen |-> [op |-> "in", b |-> b, j |-> j]]]

-----------------------------------------------------------------------------
(* State *)

NoDec ==
    [tgt_seq |-> <<>>, tgt_pos |-> <<>>, src_seq |-> <<>>, enc_output |-> <<>>,
     slf_attn_mask_subseq |-> <<>>, slf_attn_mask_keypad |-> <<>>,
     slf_attn_mask |-> <<>>,
     dec_enc_attn_mask |-> <<>>, dec_output |-> <<>>]

NoFrame ==
    [src_seq |-> <<>>, src_pos |-> <<>>, tgt_full |-> <<>>,
     tgt_seq |-> <<>>, tgt_pos |-> <<>>,
     enc_returned |-> <<>>, enc_output |-> <<>>, ses_output |-> <<>>,
     dec |-> NoDec, logits |-> <<>>,
     set_entry |-> FALSE, h_entry |-> <<>>, c_entry |-> <<>>]

Unbuilt ==
    /\ built = "none" /\ ctor = NoArgs /\ model = NoModel /\ store = NoStore
    /\ hc_set = FALSE /\ h = <<>> /\ c = <<>>
    /\ pc = "idle" /\ frame = NoFrame
    /\ calls = 0 /\ feats = <<>>

\* the state a successful Seq2Seq(a) leaves
Constructed(a) ==
    /\ built = "ok" /\ ctor = a /\ model = NewModel(a) /\ store = NewStore(a)
    /\ hc_set = FALSE /\ h = <<>> /\ c = <<>>
    /\ pc = "idle" /\ frame = NoFrame
    /\ calls = 0 /\ feats = <<>>

-----------------------------------------------------------------------------
(* Construction and parameter updates *)

\* Seq2Seq.__init__(a)
Construct(a) ==
    /\ built = "none"
    /\ ctor' = a
    /\ IF CtorFails(a)
       THEN built' = "error" /\ UNCHANGED <<model, store>>
       ELSE built' = "ok" /\ model' = NewModel(a) /\ store' = NewStore(a)
    /\ UNCHANGED <<hc_set, h, c, pc, frame, calls, feats>>

\* an in-place update of the tensor a parameter names
WriteWeight(role, v) ==
    /\ built = "ok"
    /\ store[model[role]].val # v
    /\ store' = [store EXCEPT ![model[role]].val = v]
    /\ UNCHANGED <<built, ctor, model, hc_set, h, c, pc, frame, calls, feats>>

-----------------------------------------------------------------------------
(* Session state and the forward pass *)

\* Session.zero_lstm_state(batch_size, device)
ZeroLstmState(batch_size) ==
    /\ built = "ok" /\ pc = "idle"
    /\ hc_set' = TRUE
    /\ h' = Zeros(batch_size)
    /\ c' = Zeros(batch_size)
    /\ calls' = 0 /\ feats' = <<>>
    /\ UNCHANGED <<built, ctor, model, store, pc, frame>>

\* Seq2Seq.forward, entry: tgt_seq, tgt_pos = tgt_seq[:, :-1], tgt_pos[:, :-1]
ForwardBegin(src_seq, tgt_seq) ==
    /\ built = "ok" /\ pc = "idle"
    /\ calls < MaxCalls
    /\ frame' = [NoFrame EXCEPT
                    !.src_seq = src_seq, !.src_pos = PosOf(src_seq),
                    !.tgt_full = tgt_seq,
                    !.tgt_seq = DropLast(tgt_seq),
                    !.tgt_pos = DropLast(PosOf(tgt_seq)),
                    !.set_entry = hc_set, !.h_entry = h, !.c_entry = c]
    /\ pc' = "enc"
    /\ UNCHANGED <<built, ctor, model, store, hc_set, h, c, calls, feats>>

\* enc_output, *_ = self.encoder(src_seq, src_pos)
EncoderStep ==
    /\ pc = "enc"
    /\ LET enc == EncoderForward(store[model.src_word_emb], model.n_layers,
                                 frame.src_seq, frame.src_pos)
       IN  frame' = [frame EXCEPT !.enc_returned = enc, !.enc_output = enc]
    /\ pc' = "ses"
    /\ UNCHANGED <<built, ctor, model, store, hc_set, h, c, calls, feats>>

\* variant: with mmi_factor > 0 the session runs once per half of the batch
SessionStepPerHalf ==
    /\ pc = "ses"
    /\ LET r1 == SessionForward(frame.enc_output, frame.src_seq, hc_set, h, c)
           r == IF r1.ok /\ model.mmi_factor > 0
                THEN SessionForward(r1.enc_output, frame.src_seq, TRUE, r1.h, r1.c)
                ELSE r1
       IN  /\ h' = r.h /\ c' = r.c
           /\ frame' = [frame EXCEPT !.enc_output = r.enc_output,
                                     !.ses_output = r.ses_output]
           /\ IF r.ok
              THEN pc' = "dec" /\ feats' = Append(feats, r.features)
              ELSE pc' = "failed" /\ UNCHANGED feats
    /\ UNCHANGED <<built, ctor, model, store, hc_set, calls>>

\* ses_output, *_ = self.session(enc_output, src_seq); a failure of the
\* session ends the forward call
SessionStep ==
    /\ pc = "ses"
    /\ LET r == SessionForward(frame.enc_output, frame.src_seq, hc_set, h, c)
       IN  /\ h' = r.h /\ c' = r.c
           /\ frame' = [frame EXCEPT !.enc_output = r.enc_output,
                                     !.ses_output = r.ses_output]
           /\ IF r.ok
              THEN pc' = "dec" /\ feats' = Append(feats, r.features)
              ELSE pc' = "failed" /\ UNCHANGED feats
    /\ UNCHANGED <<built, ctor, model, store, hc_set, calls>>

\* dec_output, *_ = self.decoder(...)
DecoderStep ==
    /\ pc = "dec"
    /\ frame' = [frame EXCEPT !.dec =
                    DecoderCall(store[model.tgt_word_emb], model.n_layers,
                                model.mmi_factor, frame.tgt_seq, frame.tgt_pos,
                                frame.src_seq, frame.ses_output, frame.enc_output)]
    /\ pc' = "prj"
    /\ UNCHANGED <<built, ctor, model, store, hc_set, h, c, calls, feats>>

\* seq_logit = self.tgt_word_prj(dec_output) * self.x_logit_scale, and the return
ProjectStep ==
    /\ pc = "prj"
    /\ frame' = [frame EXCEPT !.logits =
                    View2D(Project(store[model.tgt_word_prj], model.x_logit_scale,
                                   frame.dec.dec_output))]
    /\ pc' = "done" /\ calls' = calls + 1
    /\ UNCHANGED <<built, ctor, model, store, hc_set, h, c, feats>>

\* the call is over (returned, or failed in the session): its locals are gone
ForwardEnd ==
    /\ pc \in {"done", "failed"}
    /\ pc' = "idle" /\ frame' = NoFrame
    /\ UNCHANGED <<built, ctor, model, store, hc_set, h, c, calls, feats>>

\* Decoder.forward called on its own
DecoderDirect(tgt_seq, src_seq, enc_output) ==
    /\ built = "ok" /\ pc = "idle"
    /\ frame' = [NoFrame EXCEPT !.dec =
                    DecoderForward(store[model.tgt_word_emb], model.n_layers,
                                   tgt_seq, PosOf(tgt_seq), src_seq, enc_output)]
    /\ pc' = "done"
    /\ UNCHANGED <<built, ctor, model, store, hc_set, h, c, calls, feats>>

-----------------------------------------------------------------------------
(* Specifications *)

\* the forward pass of a constructed model
Init == \E a \in ForwardArgs : Constructed(a)

Forward ==
    \E sz_b \in 1..MaxBatch, ks \in 0..MaxSrcLen, len \in 2..MaxTgtLen :
        \E kt \in {len - 1, len} :
            ForwardBegin(SrcBatch(sz_b, ks), TgtBatch(sz_b, len, kt))

Reset == \E batch_size \in 1..MaxBatch : ZeroLstmState(batch_size)

Next ==
    \/ Reset
    \/ Forward
    \/ EncoderStep
    \/ SessionStep
    \/ DecoderStep
    \/ ProjectStep
    \/ ForwardEnd

Spec == Init /\ [][Next]_vars

\* construction, and updates of the parameters of a constructed model
InitCtor == Unbuilt

NextCtor ==
    \/ \E a \in CtorArgs : Construct(a)
    \/ \E role \in {"src_word_emb", "tgt_word_emb", "tgt_word_prj"}, v \in 1..MaxVal :
            WriteWeight(role, v)

SpecCtor == InitCtor /\ [][NextCtor]_vars

\* the decoder on arbitrary padded target batches
InitDecoder ==
    \E a \in ForwardArgs : a.mmi_factor = 0 /\ a.src_emb_file = "" /\ Constructed(a)

NextDecoder ==
    \E sz_b \in 1..MaxBatch, len \in 1..MaxDecLen, ks \in 0..MaxSrcLen :
        \E tgt_seq \in AnyBatch(sz_b, len) :
            DecoderDirect(tgt_seq, SrcBatch(sz_b, ks), AnyMemory(sz_b))

SpecDecoder == InitDecoder /\ [][NextDecoder]_vars

-----------------------------------------------------------------------------
(* Properties *)

\* the state reached from the zero state of batch size n by one LSTM step per
\* feature batch of fs
Unroll(fs, n) ==
    LET F[k \in 0..Len(fs)] ==
            IF k = 0 THEN [h |-> Zeros(n), c |-> Zeros(n)]
            ELSE LSTMCell(fs[k], F[k - 1].h, F[k - 1].c)
    IN  F[Len(fs)]

\* the number of LSTM steps a state vector went through since the zero vector
RECURSIVE LstmDepth(_)
LstmDepth(t) ==
    IF t.op \in {"lstm_h", "lstm_c"} THEN 1 + LstmDepth(t.h) ELSE 0

SessionRan == pc \in {"dec", "prj", "done"}

\* C1: zero_lstm_state leaves (h, c) all zero, and every forward steps the
\* state left by the preceding reset or forward: (h, c) is always the zero state
\* advanced by the features of every forward since the last reset.  Hence a
\* forward that follows another forward without a reset returns another
\* sequence than the same forward would return right after a reset.
C1_StateCarriedAcrossCalls ==
    hc_set =>
        /\ h = Unroll(feats, Len(h)).h
        /\ c = Unroll(feats, Len(c)).c
        /\ (feats = <<>> => h = Zeros(Len(h)) /\ c = Zeros(Len(c)))
        /\ (SessionRan /\ Len(feats) >= 2 =>
                frame.ses_output #
                    SessionForward(frame.enc_returned, frame.src_seq, TRUE,
                                   Zeros(Len(h)), Zeros(Len(c))).ses_output)

C1_Witness ==
    /\ pc = "done" /\ hc_set /\ Len(feats) = 2 /\ calls = 2
    /\ feats[1] = feats[2]

\* C2: with mmi_factor > 0, a batch of B elements and T decoder steps (the
\* target length less the dropped last token), the decoder output has 2B batch
\* elements and the logits 2*B*T rows; with mmi_factor = 0 they have B batch
\* elements and B*T rows.
C2_MmiDoubling ==
    pc = "done" =>
        LET B == Len(frame.src_seq)
            T == Len(frame.tgt_full[1]) - 1
        IN  IF model.mmi_factor > 0
            THEN /\ Len(frame.dec.dec_output) = 2 * B
                 /\ Len(frame.logits) = 2 * B * T
            ELSE /\ Len(frame.dec.dec_output) = B
                 /\ Len(frame.logits) = B * T

C2_Witness ==
    /\ pc = "done" /\ model.mmi_factor > 0
    /\ Len(frame.src_seq) = 2 /\ Len(frame.tgt_full[1]) = 4
    /\ Len(frame.logits) = 2 * 2 * 3

\* C3: the decoder receives the first L-1 columns of the target tokens and
\* positions, and with mmi_factor = 0 the logits have B*(L-1) rows, row r
\* being the projection of the decoder output of batch element r div (L-1) at
\* time step r mod (L-1).
C3_TeacherForcingShift ==
    pc \in {"prj", "done"} =>
        LET B == Len(frame.tgt_full)
            L == Len(frame.tgt_full[1])
            T == L - 1
            full_pos == PosOf(frame.tgt_full)
            shifted_seq == [b \in 1..B |-> [t \in 1..T |-> frame.tgt_full[b][t]]]
            shifted_pos == [b \in 1..B |-> [t \in 1..T |-> full_pos[b][t]]]
            expected == DecoderForward(store[model.tgt_word_emb], model.n_layers,
                                       shifted_seq, shifted_pos, frame.src_seq,
                                       frame.ses_output).dec_output
        IN  /\ \A b \in 1..Len(frame.dec.tgt_seq) :
                /\ frame.dec.tgt_seq[b] = shifted_seq[((b - 1) % B) + 1]
                /\ frame.dec.tgt_pos[b] = shifted_pos[((b - 1) % B) + 1]
            /\ (pc = "done" /\ model.mmi_factor = 0 =>
                    /\ Len(frame.logits) = B * T
                    /\ \A r \in 0..(B * T - 1) :
                           frame.logits[r + 1].x = expected[(r \div T) + 1][(r % T) + 1])

C3_Witness ==
    /\ pc = "done" /\ model.mmi_factor = 0
    /\ Len(frame.tgt_full) = 2 /\ Len(frame.tgt_full[1]) = 4
    /\ frame.tgt_full[1][4] # PAD
    /\ Len(frame.logits) = 2 * 3
    /\ frame.logits[3] # frame.logits[4]

\* C4: with mmi_factor > 0 the decoder memory is the session output for the
\* first B batch elements and, for the second B, the encoder output exactly
\* as the encoder returned it.
C4_RawEncoderOutputKept ==
    (pc \in {"prj", "done"} /\ model.mmi_factor > 0) =>
        LET B == Len(frame.src_seq)
        IN  /\ Len(frame.dec.enc_output) = 2 * B
            /\ \A b \in 1..B :
                /\ frame.dec.enc_output[b] = frame.ses_output[b]
                /\ frame.dec.enc_output[B + b] = frame.enc_returned[b]

\* C9: a session call made before any reset, or with another batch size than
\* the state, fails and leaves (h, c) as they were; only a call that matches
\* the state gets past the session.
C9_FailedCallKeepsState ==
    /\ pc = "failed" =>
        /\ ~frame.set_entry \/ Len(frame.h_entry) # Len(frame.src_seq)
        /\ hc_set = frame.set_entry
        /\ h = frame.h_entry /\ c = frame.c_entry
    /\ SessionRan /\ frame.src_seq # <<>> =>
        frame.set_entry /\ Len(frame.h_entry) = Len(frame.src_seq)

C9_Witness ==
    /\ pc = "failed" /\ frame.set_entry
    /\ Len(frame.h_entry) # Len(frame.src_seq)
    /\ calls = 1

\* C10: a forward call steps (h, c) once, between the encoder and the
\* decoder, with or without the doubled pass; the state keeps the batch size
\* B, and after n successful calls since a reset it went through n steps.
C10_OneUpdatePerForward ==
    (hc_set /\ pc # "failed") =>
        LET done == IF pc \in {"dec", "prj"} THEN calls + 1 ELSE calls
        IN  /\ \A b \in 1..Len(h) : LstmDepth(h[b]) = done /\ LstmDepth(c[b]) = done
            /\ (pc \in {"enc", "ses"} => h = frame.h_entry /\ c = frame.c_entry)
            /\ (SessionRan /\ frame.src_seq # <<>> =>
                    LET step == LSTMCell(SessionFeatures(frame.enc_output),
                                         frame.h_entry, frame.c_entry)
                    IN  /\ h = step.h /\ c = step.c
                        /\ Len(h) = Len(frame.src_seq))

C10_Witness ==
    /\ pc = "done" /\ model.mmi_factor > 0 /\ calls = 2
    /\ Len(frame.dec.dec_output) = 2 * Len(h)

\* C5: the decoder self-attention mask is True at [b][i][j] exactly when
\* tgt_seq[b][j] is PAD or j > i; its causal component is True exactly when
\* j > i, for every batch element alike.
C5_DecoderSelfAttentionMask ==
    (pc = "done" /\ frame.dec.tgt_seq # <<>>) =>
        LET tgt == frame.dec.tgt_seq
            B == Len(tgt)
            L == Len(tgt[1])
        IN  /\ Len(frame.dec.slf_attn_mask) = B
            /\ Len(frame.dec.slf_attn_mask_subseq) = B
            /\ \A b \in 1..B :
                /\ Len(frame.dec.slf_attn_mask[b]) = L
                /\ frame.dec.slf_attn_mask_subseq[b] = frame.dec.slf_attn_mask_subseq[1]
                /\ \A i \in 1..L :
                    /\ Len(frame.dec.slf_attn_mask[b][i]) = L
                    /\ \A j \in 1..L :
                        /\ frame.dec.slf_attn_mask[b][i][j] = (tgt[b][j] = PAD \/ j > i)
                        /\ (frame.dec.slf_attn_mask_subseq[b][i][j] = 1) = (j > i)
                        /\ frame.dec.slf_attn_mask_subseq[b][i][j] \in {0, 1}

C5_Witness ==
    /\ pc = "done" /\ Len(frame.dec.tgt_seq) = 2 /\ Len(frame.dec.tgt_seq[1]) = 3
    /\ frame.dec.tgt_seq[1] = <<1, PAD, 1>>
    /\ frame.dec.tgt_seq[2] = <<PAD, 1, 1>>
    /\ frame.dec.slf_attn_mask[1][3] = <<FALSE, TRUE, FALSE>>
    /\ frame.dec.slf_attn_mask[2][1] = <<TRUE, TRUE, TRUE>>

\* C6: the key-padding mask of a key batch [B, Lk] and a query batch [B, Lq]
\* has shape [B, Lq, Lk] and is True at [b][i][j] exactly when seq_k[b][j] is
\* PAD: every query position has the same row, and the tokens of the query
\* do not matter (the cross-attention mask depends on the source tokens only).
C6_KeyPaddingMask ==
    (pc = "done" /\ frame.dec.tgt_seq # <<>>) =>
        LET tgt == frame.dec.tgt_seq
            src == frame.dec.src_seq
            B == Len(src)
            Lq == Len(tgt[1])
            cross == frame.dec.dec_enc_attn_mask
            own == frame.dec.slf_attn_mask_keypad
        IN  /\ Len(cross) = B /\ Len(own) = B
            /\ \A b \in 1..B :
                /\ Len(cross[b]) = Lq /\ Len(own[b]) = Lq
                /\ \A i \in 1..Lq :
                    /\ Len(cross[b][i]) = Len(src[b])
                    /\ \A j \in 1..Len(src[b]) : cross[b][i][j] = (src[b][j] = PAD)
                    /\ cross[b][i] = cross[b][1]
                    /\ Len(own[b][i]) = Lq
                    /\ \A j \in 1..Lq : own[b][i][j] = (tgt[b][j] = PAD)
            /\ \A other \in AnyBatch(B, Lq) :
                    get_attn_key_pad_mask(src, other) = cross

C6_Witness ==
    /\ pc = "done" /\ Len(frame.dec.tgt_seq) = 2
    /\ frame.dec.tgt_seq[1] = <<PAD, 1, 1>>
    /\ frame.dec.src_seq[1] = <<1, PAD>>
    /\ frame.dec.dec_enc_attn_mask[1] = <<<<FALSE, TRUE>>, <<FALSE, TRUE>>, <<FALSE, TRUE>>>>

\* C7: with tgt_emb_prj_weight_sharing the projection weight is the tensor of
\* the target embedding (what is written through one is read through the
\* other) and the logit scale is 1/sqrt(d_model); without it they are two
\* tensors and the scale is 1.  With emb_src_tgt_weight_sharing the source
\* embedding is the tensor of the target embedding.
C7_WeightTying ==
    built = "ok" =>
        /\ (ctor.tgt_emb_prj_weight_sharing =>
                /\ model.tgt_word_prj = model.tgt_word_emb
                /\ store[model.tgt_word_prj] = store[model.tgt_word_emb]
                /\ model.x_logit_scale = [num |-> 1, den_sq |-> ctor.d_model])
        /\ (~ctor.tgt_emb_prj_weight_sharing =>
                /\ model.tgt_word_prj # model.tgt_word_emb
                /\ model.x_logit_scale = [num |-> 1, den_sq |-> 1])
        /\ (ctor.emb_src_tgt_weight_sharing =>
                /\ model.src_word_emb = model.tgt_word_emb
                /\ store[model.src_word_emb] = store[model.tgt_word_emb])
        /\ (~ctor.emb_src_tgt_weight_sharing =>
                model.src_word_emb # model.tgt_word_emb)
        /\ (ctor.tgt_emb_prj_weight_sharing /\ ctor.emb_src_tgt_weight_sharing =>
                Cardinality({model.src_word_emb, model.tgt_word_emb,
                             model.tgt_word_prj}) = 1)

C7_Witness ==
    /\ built = "ok"
    /\ ctor.tgt_emb_prj_weight_sharing /\ ctor.emb_src_tgt_weight_sharing
    /\ store[model.tgt_word_prj].val = 2
    /\ store[model.src_word_emb].val = 2
    /\ store[PrjTensor].val = 0

\* C8: construction fails when d_model differs from d_word_vec, and when
\* emb_src_tgt_weight_sharing is set with different vocabulary sizes; a failed
\* construction yields no model.  With equal dimensions and the sharing off,
\* different vocabulary sizes do not fail.
C8_ConstructionErrors ==
    built # "none" =>
        /\ (ctor.d_model # ctor.d_word_vec => built = "error")
        /\ (ctor.emb_src_tgt_weight_sharing /\ ctor.n_src_vocab # ctor.n_tgt_vocab
                => built = "error")
        /\ (built = "error" => model = NoModel /\ store = NoStore)
        /\ (ctor.d_model = ctor.d_word_vec /\ ~ctor.emb_src_tgt_weight_sharing
                => built = "ok")

C8_Witness ==
    /\ built = "ok" /\ ctor.n_src_vocab # ctor.n_tgt_vocab
    /\ ~ctor.emb_src_tgt_weight_sharing
    /\ model = NewModel(ctor)

====
